---- MODULE Spec2Model ----
(***************************************************************************)
(* Model of autoscaling/ml_autoscaler.py: the ML autoscaler of the SMF/UPF *)
(* deployments (NetworkMetricsCollector, MLPredictor, VNFAutoscaler and    *)
(* the loop of VNFAutoscaler.run_autoscaling_loop).                        *)
(*                                                                         *)
(* Units.  Loads, cpu and memory are whole percents, latency whole         *)
(* milliseconds, throughput whole MB/s; load_score is kept in tenths of a  *)
(* percent so that the weighted sum of line 217-222 is exact.  A history   *)
(* entry is the number of the add_data_point call that appended it (the    *)
(* features, resp. the load score, collected by that iteration).  Time is  *)
(* in seconds and advances only in time.sleep: the calls of an iteration   *)
(* are taken to return at once.  Every helper the loop calls catches its   *)
(* own exceptions, so the handler of lines 259-261 has no step here.       *)
(*                                                                         *)
(* The last section models autoscaling/k3s-autoscaling.py, the script that *)
(* scales the worker nodes of the cluster through the count= line of a     *)
(* Terraform manifest.  It is a separate process with its own variables.   *)
(***************************************************************************)
EXTENDS Integers, Sequences, FiniteSets, TLC

VARIABLES
    profile,            \* which environment the run is in (fixed by Init)
    pc,                 \* position of run_autoscaling_loop in its iteration
    features_history,   \* MLPredictor.features_history
    target_history,     \* MLPredictor.target_history
    is_trained,         \* MLPredictor.is_trained
    model,              \* MLPredictor.model: 0 unfitted, n fitted by the fit made at append n
    replicas,           \* the cluster: spec.replicas of each deployment
    current_features,   \* local of the loop, <<ping, throughput, cpu, memory>>
    load_score,         \* local of the loop, in tenths of a percent
    predicted_load,     \* local of the loop
    query,              \* what the four Prometheus queries of this iteration did
    act,                \* what the last deployment step of this iteration did: the count
                        \* read, the count desired, whether scale_deployment was called
                        \* (patched) and returned True (ok), the deployment's since_scale
                        \* and count before the step, and whether an earlier
                        \* scale_deployment of the iteration had failed
    appended,           \* number of add_data_point calls so far
    last_train,         \* value of appended at the last train_model call, 0 if none
    train_gap,          \* appends between the last two train_model calls, -1 if fewer than two
    now,                \* seconds slept so far
    since_scale,        \* per deployment: seconds since its last successful patch, -1 if none
    arg,                \* argument of the function under test (function specifications)
    ret,                \* its result
    main_tf,            \* k3s-autoscaling.py: the count= of main.tf
    k3s_pc,             \* position of the script in its while loop
    count_string,       \* local of the script: the count read from main.tf
    cpu_usage,          \* local of the script
    mem_usage,          \* local of the script
    desiredReplicas,    \* local of the script
    k3s_query,          \* what the two Prometheus queries of this iteration returned
    written             \* the count the script wrote to main.tf in this iteration, -1 if none

vars == <<profile, pc, features_history, target_history, is_trained, model,
          replicas, current_features, load_score, predicted_load, query, act,
          appended, last_train, train_gap, now, since_scale, arg, ret,
          main_tf, k3s_pc, count_string, cpu_usage, mem_usage, desiredReplicas,
          k3s_query, written>>

\* the variables of k3s-autoscaling.py
k3s_vars == <<main_tf, k3s_pc, count_string, cpu_usage, mem_usage, desiredReplicas,
              k3s_query, written>>

\* the variables of ml_autoscaler.py
ml_vars == <<profile, pc, features_history, target_history, is_trained, model,
             replicas, current_features, load_score, predicted_load, query, act,
             appended, last_train, train_gap, now, since_scale, arg, ret>>

----------------------------------------------------------------------------
(* Program constants *)

min_replicas == 2
max_replicas == 10
HistoryLimit == 100
TrainEvery == 20
MinTrainingPoints == 10
PollSeconds == 30

(* Bounds of the model *)

MaxIterShort == 21      \* iterations explored in the wide and faulty environments
MaxIterLong == 103      \* iterations explored in the long environment
MaxAge == 60            \* since_scale saturates here ("60 s or more")
MaxCurrent == 14        \* largest replica count given to the decision function
MaxLoad == 110          \* largest load given to the decision function
MaxNodes == 20          \* largest node count k3s-autoscaling.py is followed to

Raised == -1000         \* a call raised an exception (or was not reached)
Deployments == {"oai-smf", "oai-upf"}
NoAct == [target |-> "none", read |-> 0, desired |-> 0, patched |-> FALSE, ok |-> FALSE,
          age |-> -1, before |-> 0, prior_failed |-> FALSE]

Max(a, b) == IF a >= b THEN a ELSE b
Min(a, b) == IF a <= b THEN a ELSE b

----------------------------------------------------------------------------
(* The environment: what the queries, the model and the cluster may answer *)

\* "wide": every replica count and actuator failure; "faulty": failing queries
\* and a failing model; "long": a run past the history limit; "errors": every
\* call that can fail does; "hot": a load that stays above 60
PingOutcomes ==
    IF profile = "faulty" THEN {Raised, 40, 300}
    ELSE IF profile = "errors" THEN {Raised, 40}
    ELSE {40}
ThroughputOutcomes ==
    IF profile = "faulty" THEN {Raised, 20, 200}
    ELSE IF profile = "errors" THEN {Raised, 20}
    ELSE {20}
CpuOutcomes == IF profile \in {"faulty", "errors"} THEN {Raised, 50} ELSE {50}
MemoryOutcomes ==
    IF profile = "faulty" THEN {Raised, 20, 70, 100}
    ELSE IF profile = "wide" THEN {20, 50, 70, 90}
    ELSE IF profile = "errors" THEN {Raised, 50}
    ELSE IF profile = "hot" THEN {70, 90}
    ELSE {50, 90}
ModelOutputs ==
    IF profile = "faulty" THEN {Raised, -5, 50, 90}
    ELSE IF profile = "errors" THEN {Raised, 90}
    ELSE IF profile = "hot" THEN {70, 90}
    ELSE {-5, 20, 50, 70, 90}
FitOutcomes == IF profile \in {"wide", "hot"} THEN {TRUE} ELSE {TRUE, FALSE}
InitialReplicas ==
    IF profile = "wide" THEN {1, 2, 5, 8, 12}
    ELSE IF profile = "hot" THEN 2..10
    ELSE {2}
CallOutcomes == IF profile \in {"wide", "errors"} THEN {TRUE, FALSE} ELSE {TRUE}
MaxIter == IF profile = "long" THEN MaxIterLong ELSE MaxIterShort

----------------------------------------------------------------------------
(* NetworkMetricsCollector *)

\* the except clause lost: the exception's marker reaches the caller
get_ping_metrics_unhandled(outcome) == outcome

\* outcome: the probe duration the query returns, already times 1000 (ms);
\* an empty result gives 0.0 as a duration of 0 does
get_ping_metrics(outcome) ==
    IF outcome = Raised THEN 0 ELSE outcome

\* outcome: the summed rate of the smf and upf pods, already in MB/s
get_iperf3_metrics(outcome) ==
    IF outcome = Raised THEN 0 ELSE outcome

\* <<avg_cpu, avg_memory>>: one try block around both queries
get_pod_metrics(cpu_outcome, memory_outcome) ==
    IF cpu_outcome = Raised \/ memory_outcome = Raised
    THEN <<0, 0>>
    ELSE <<cpu_outcome, memory_outcome>>

----------------------------------------------------------------------------
(* MLPredictor *)

\* pop() for pop(0): the newest entry is the one dropped
add_data_point_drop_newest(history, point) ==
    LET grown == Append(history, point)
    IN  IF Len(grown) > HistoryLimit THEN SubSeq(grown, 1, Len(grown) - 1) ELSE grown

add_data_point(history, point) ==
    LET grown == Append(history, point)
    IN  IF Len(grown) > HistoryLimit THEN Tail(grown) ELSE grown

\* line 96 lost: the oldest target stays when the oldest features go
add_data_point_target_kept(features, targets, target) ==
    Append(targets, target)

\* lines 91 and 94-96: target_history after the call; the length tested is
\* that of features_history after its append
add_data_point_target(features, targets, target) ==
    LET grown == Append(targets, target)
    IN  IF Len(features) + 1 > HistoryLimit THEN Tail(grown) ELSE grown

\* a fit that raises leaves the predictor untrained and the model unfitted
train_model_resets(history, trained, fitted, fit_ok, stamp) ==
    IF Len(history) < MinTrainingPoints THEN <<trained, fitted>>
    ELSE IF fit_ok THEN <<TRUE, stamp>>
    ELSE <<FALSE, 0>>

\* result of train_model: <<is_trained', model'>>; fit_ok is whether fit returns
train_model(history, trained, fitted, fit_ok, stamp) ==
    IF Len(history) < MinTrainingPoints THEN <<trained, fitted>>
    ELSE IF fit_ok THEN <<TRUE, stamp>>
    ELSE <<trained, fitted>>

\* lines 105-108: the examples model.fit is given, row k of X with entry k of y
TrainingSet(features, targets) ==
    {<<features[k], targets[k]>> : k \in 1..Len(features)}

\* no prediction (0) while untrained
predict_load_absent(trained, features, output) ==
    IF ~trained THEN 0
    ELSE IF output = Raised THEN features[Len(features)]
    ELSE Max(0, output)

\* output is what model.predict returns, Raised if it raises
predict_load(trained, features, output) ==
    IF ~trained THEN features[Len(features)]
    ELSE IF output = Raised THEN features[Len(features)]
    ELSE Max(0, output)

----------------------------------------------------------------------------
(* VNFAutoscaler *)

\* >= 60 for > 60
ScaleFactorInclusive(load) ==
    IF load > 80 THEN <<3, 2>>
    ELSE IF load >= 60 THEN <<6, 5>>
    ELSE IF load < 30 THEN <<4, 5>>
    ELSE <<1, 1>>

\* 0.5 for 0.8
ScaleFactorHalf(load) ==
    IF load > 80 THEN <<3, 2>>
    ELSE IF load > 60 THEN <<6, 5>>
    ELSE IF load < 30 THEN <<1, 2>>
    ELSE <<1, 1>>

\* scale_factor as <<numerator, denominator>>
ScaleFactor(load) ==
    IF load > 80 THEN <<3, 2>>
    ELSE IF load > 60 THEN <<6, 5>>
    ELSE IF load < 30 THEN <<4, 5>>
    ELSE <<1, 1>>

\* math.ceil for int
ScaledCeil(current, factor) == (current * factor[1] + factor[2] - 1) \div factor[2]

\* int(current_replicas * scale_factor): truncation of a non-negative product
Scaled(current, factor) == (current * factor[1]) \div factor[2]

\* the upper limit lost
ClampLowOnly(n) == Max(min_replicas, n)

Clamp(n) == Max(min_replicas, Min(max_replicas, n))

calculate_desired_replicas(current, load) ==
    Clamp(Scaled(current, ScaleFactor(load)))

get_current_replicas(name, read_ok) ==
    IF read_ok THEN replicas[name] ELSE min_replicas

\* the patch takes effect although the call raises
scale_deployment_applied(name, new_replicas, patch_ok) ==
    [replicas EXCEPT ![name] = new_replicas]

\* the cluster after scale_deployment; patch_ok is whether the patch returns
scale_deployment(name, new_replicas, patch_ok) ==
    IF patch_ok THEN [replicas EXCEPT ![name] = new_replicas] ELSE replicas

\* scale_deployment is called at all, although desired = current
needs_scale_always(desired, current) == TRUE

\* lines 244 and 252: desired != current
needs_scale(desired, current) == desired # current

\* load_score of lines 217-222, in tenths of a percent
LoadScore(f) == 1 * f[1] + 2 * f[2] + 3 * f[3] + 3 * f[4]

\* % 10 for % 20
should_train_every10(history) == Len(history) % 10 = 0

should_train(history) == Len(history) % TrainEvery = 0

----------------------------------------------------------------------------
(* The loop *)

\* the state VNFAutoscaler() and its MLPredictor() are constructed in
Constructed ==
    /\ features_history = <<>>
    /\ target_history = <<>>
    /\ is_trained = FALSE
    /\ model = 0
    /\ current_features = <<>>
    /\ load_score = 0
    /\ predicted_load = 0
    /\ query = <<>>
    /\ act = NoAct
    /\ appended = 0
    /\ last_train = 0
    /\ train_gap = -1
    /\ now = 0
    /\ since_scale = [d \in Deployments |-> -1]

\* k3s-autoscaling.py is not running
K3sOff ==
    /\ main_tf = 0
    /\ k3s_pc = "off"
    /\ count_string = 0
    /\ cpu_usage = 0
    /\ mem_usage = 0
    /\ desiredReplicas = 0
    /\ k3s_query = <<>>
    /\ written = -1

ProgramInit ==
    /\ Constructed
    /\ K3sOff
    /\ pc = "collect"
    /\ arg = <<>>
    /\ ret = <<>>

Init ==
    /\ profile = "wide"
    /\ replicas \in [Deployments -> InitialReplicas]
    /\ ProgramInit

InitFaulty ==
    /\ profile = "faulty"
    /\ replicas \in [Deployments -> InitialReplicas]
    /\ ProgramInit

InitLong ==
    /\ profile = "long"
    /\ replicas \in [Deployments -> InitialReplicas]
    /\ ProgramInit

\* lines 208-225: the four queries, the load score, add_data_point
Collect ==
    /\ pc = "collect"
    /\ appended < MaxIter
    /\ \E p \in PingOutcomes, t \in ThroughputOutcomes,
          c \in CpuOutcomes, m \in MemoryOutcomes :
          /\ c = Raised => m = Raised
          /\ LET pod == get_pod_metrics(c, m)
                 f == <<get_ping_metrics(p), get_iperf3_metrics(t), pod[1], pod[2]>>
             IN  /\ query' = <<p, t, c, m>>
                 /\ current_features' = f
                 /\ load_score' = LoadScore(f)
    /\ appended' = appended + 1
    /\ features_history' = add_data_point(features_history, appended + 1)
    /\ target_history' = add_data_point_target(features_history, target_history,
                                              appended + 1)
    /\ pc' = "train"
    /\ UNCHANGED <<k3s_vars, profile, is_trained, model, replicas, predicted_load, act,
                   last_train, train_gap, now, since_scale, arg, ret>>

\* lines 227-229, the call of train_model
Train ==
    /\ pc = "train"
    /\ should_train(features_history)
    /\ \E fit_ok \in FitOutcomes :
          LET r == train_model(features_history, is_trained, model, fit_ok, appended)
          IN  /\ is_trained' = r[1]
              /\ model' = r[2]
    /\ last_train' = appended
    /\ train_gap' = IF last_train = 0 THEN -1 ELSE appended - last_train
    /\ pc' = "predict"
    /\ UNCHANGED <<k3s_vars, profile, features_history, target_history, replicas,
                   current_features, load_score, predicted_load, query, act,
                   appended, now, since_scale, arg, ret>>

\* lines 227-229, the length is no multiple of 20
SkipTrain ==
    /\ pc = "train"
    /\ ~should_train(features_history)
    /\ pc' = "predict"
    /\ UNCHANGED <<k3s_vars, profile, features_history, target_history, is_trained, model,
                   replicas, current_features, load_score, predicted_load, query,
                   act, appended, last_train, train_gap, now, since_scale, arg, ret>>

\* lines 231-238
Predict ==
    /\ pc = "predict"
    /\ \E output \in (IF is_trained THEN ModelOutputs ELSE {Raised}) :
          predicted_load' = predict_load(is_trained, current_features, output)
    /\ pc' = "smf"
    /\ UNCHANGED <<k3s_vars, profile, features_history, target_history, is_trained, model,
                   replicas, current_features, load_score, query, act, appended,
                   last_train, train_gap, now, since_scale, arg, ret>>

\* lines 240-246 (name = "oai-smf") and 248-254 (name = "oai-upf")
ScaleStep(name, next_pc) ==
    \E read_ok \in CallOutcomes, patch_ok \in CallOutcomes :
       LET current == get_current_replicas(name, read_ok)
           desired == calculate_desired_replicas(current, predicted_load)
           patched == needs_scale(desired, current)
       IN  /\ patched \/ patch_ok
           /\ replicas' = IF patched
                          THEN scale_deployment(name, desired, patch_ok)
                          ELSE replicas
           /\ since_scale' = IF patched /\ patch_ok
                             THEN [since_scale EXCEPT ![name] = 0]
                             ELSE since_scale
           /\ act' = [target |-> name, read |-> current, desired |-> desired,
                      patched |-> patched, ok |-> patched /\ patch_ok,
                      age |-> since_scale[name], before |-> replicas[name],
                      prior_failed |-> act.patched /\ ~act.ok]
           /\ pc' = next_pc

ScaleSMF ==
    /\ pc = "smf"
    /\ ScaleStep("oai-smf", "upf")
    /\ UNCHANGED <<k3s_vars, profile, features_history, target_history, is_trained, model,
                   current_features, load_score, predicted_load, query, appended,
                   last_train, train_gap, now, arg, ret>>

ScaleUPF ==
    /\ pc = "upf"
    /\ ScaleStep("oai-upf", "sleep")
    /\ UNCHANGED <<k3s_vars, profile, features_history, target_history, is_trained, model,
                   current_features, load_score, predicted_load, query, appended,
                   last_train, train_gap, now, arg, ret>>

\* time.sleep(10) for time.sleep(30)
AgedShort(age) == IF age = -1 THEN -1 ELSE Min(MaxAge, age + 10)

\* since_scale after the sleep of line 257
Aged(age) == IF age = -1 THEN -1 ELSE Min(MaxAge, age + PollSeconds)

\* the loop ends after one iteration
SleepAndExit ==
    /\ pc = "sleep"
    /\ now' = now + PollSeconds
    /\ since_scale' = [d \in Deployments |-> Aged(since_scale[d])]
    /\ pc' = "exit"
    /\ UNCHANGED <<k3s_vars, profile, features_history, target_history, is_trained, model,
                   replicas, current_features, load_score, predicted_load, query,
                   act, appended, last_train, train_gap, arg, ret>>

\* line 257; the locals of the iteration are dead from here on
Sleep ==
    /\ pc = "sleep"
    /\ now' = now + PollSeconds
    /\ since_scale' = [d \in Deployments |-> Aged(since_scale[d])]
    /\ current_features' = <<>>
    /\ load_score' = 0
    /\ predicted_load' = 0
    /\ query' = <<>>
    /\ act' = NoAct
    /\ pc' = "collect"
    /\ UNCHANGED <<k3s_vars, profile, features_history, target_history, is_trained, model,
                   replicas, appended, last_train, train_gap, arg, ret>>

Next ==
    \/ Collect
    \/ Train
    \/ SkipTrain
    \/ Predict
    \/ ScaleSMF
    \/ ScaleUPF
    \/ Sleep

Spec == Init /\ [][Next]_vars

SpecFaulty == InitFaulty /\ [][Next]_vars

SpecLong == InitLong /\ [][Next]_vars

InitErrors ==
    /\ profile = "errors"
    /\ replicas \in [Deployments -> InitialReplicas]
    /\ ProgramInit

\* the loop is the one thread of the process: it takes its next step
SpecErrors == InitErrors /\ [][Next]_vars /\ WF_vars(Next)

InitHot ==
    /\ profile = "hot"
    /\ replicas \in [Deployments -> InitialReplicas]
    /\ ProgramInit

SpecHot == InitHot /\ [][Next]_vars

----------------------------------------------------------------------------
(* calculate_desired_replicas on its own: every current count and load *)

InitDecide ==
    /\ profile = "decide"
    /\ replicas = [d \in Deployments |-> min_replicas]
    /\ Constructed
    /\ K3sOff
    /\ pc = "call"
    /\ arg \in (0..MaxCurrent) \X (0..MaxLoad)
    /\ ret = <<>>

CallDecide ==
    /\ pc = "call"
    /\ ret' = <<calculate_desired_replicas(arg[1], arg[2])>>
    /\ pc' = "returned"
    /\ UNCHANGED <<k3s_vars, profile, features_history, target_history, is_trained, model,
                   replicas, current_features, load_score, predicted_load, query,
                   act, appended, last_train, train_gap, now, since_scale, arg>>

NextDecide == CallDecide

SpecDecide == InitDecide /\ [][NextDecide]_vars

\* the loop in the wide environment, and the function called on its own
InitLoopOrDecide == Init \/ InitDecide

NextLoopOrDecide ==
    \/ Next
    \/ NextDecide

SpecLoopAndDecide == InitLoopOrDecide /\ [][NextLoopOrDecide]_vars

----------------------------------------------------------------------------
(* k3s-autoscaling.py: the node autoscaler.  The script has no exception    *)
(* handler: a subprocess or a query that raises ends the process.           *)

desiredMetricValue == 80
NoData == -2000         \* custom_query returned []

\* what a query gives: no data, an exception, or a usage in percent; the
\* usages are multiples of 5, for which value / 80 is exact in a float
K3sReadings == {NoData, Raised, 0, 40, 80, 100}
K3sInitialCounts == 0..6

\* lines 28-31 and 36-39: float of the value, 0.0 for an empty result
usage_of(result) == IF result = NoData THEN 0 ELSE result

\* math.ceil of a non-negative quotient n / d
Ceil(n, d) == (n + d - 1) \div d

\* the floor of 2 lost
desired_for_unfloored(count, currentMetricValue) ==
    Ceil(count * currentMetricValue, desiredMetricValue)

\* lines 46-50: the count one metric asks for
desired_for(count, currentMetricValue) ==
    LET d == Ceil(count * currentMetricValue, desiredMetricValue)
    IN  IF d < 2 THEN 2 ELSE d

\* lines 41-54: max over [cpu_usage, mem_usage]
desired_replicas(count, cpu, mem) ==
    Max(desired_for(count, cpu), desired_for(count, mem))

InitK3s ==
    /\ profile = "k3s"
    /\ replicas = [d \in Deployments |-> min_replicas]
    /\ Constructed
    /\ pc = "off"
    /\ arg = <<>>
    /\ ret = <<>>
    /\ main_tf \in K3sInitialCounts
    /\ k3s_pc = "read"
    /\ count_string = 0
    /\ cpu_usage = 0
    /\ mem_usage = 0
    /\ desiredReplicas = 0
    /\ k3s_query = <<>>
    /\ written = -1

\* lines 19-23: grep of count= in main.tf
K3sRead ==
    /\ k3s_pc = "read"
    /\ \E grep_ok \in BOOLEAN :
          IF grep_ok
          THEN count_string' = main_tf /\ k3s_pc' = "query"
          ELSE count_string' = count_string /\ k3s_pc' = "crashed"
    /\ UNCHANGED <<ml_vars, main_tf, cpu_usage, mem_usage, desiredReplicas,
                   k3s_query, written>>

\* lines 25-39: the two queries
K3sQuery ==
    /\ k3s_pc = "query"
    /\ \E c \in K3sReadings, m \in K3sReadings :
          /\ c = Raised => m = Raised
          /\ k3s_query' = <<c, m>>
          /\ IF c = Raised \/ m = Raised
             THEN /\ k3s_pc' = "crashed"
                  /\ cpu_usage' = (IF c = Raised THEN cpu_usage ELSE usage_of(c))
                  /\ mem_usage' = mem_usage
             ELSE /\ k3s_pc' = "decide"
                  /\ cpu_usage' = usage_of(c)
                  /\ mem_usage' = usage_of(m)
    /\ UNCHANGED <<ml_vars, main_tf, count_string, desiredReplicas, written>>

\* lines 41-54
K3sDecide ==
    /\ k3s_pc = "decide"
    /\ desiredReplicas' = desired_replicas(count_string, cpu_usage, mem_usage)
    /\ k3s_pc' = "scale"
    /\ UNCHANGED <<ml_vars, main_tf, count_string, cpu_usage, mem_usage,
                   k3s_query, written>>

\* lines 56-77: sed writes the count into main.tf, then terraform init and
\* apply; sed_ok and terraform_ok are whether the commands return
K3sScale ==
    /\ k3s_pc = "scale"
    /\ desiredReplicas # count_string
    /\ desiredReplicas <= MaxNodes
    /\ \E sed_ok \in BOOLEAN, terraform_ok \in BOOLEAN :
          /\ ~sed_ok => ~terraform_ok
          /\ main_tf' = (IF sed_ok THEN desiredReplicas ELSE main_tf)
          /\ written' = (IF sed_ok THEN desiredReplicas ELSE written)
          /\ k3s_pc' = (IF terraform_ok THEN "sleep" ELSE "crashed")
    /\ UNCHANGED <<ml_vars, count_string, cpu_usage, mem_usage, desiredReplicas,
                   k3s_query>>

\* lines 78-79
K3sNotScaling ==
    /\ k3s_pc = "scale"
    /\ desiredReplicas = count_string
    /\ k3s_pc' = "sleep"
    /\ UNCHANGED <<ml_vars, main_tf, count_string, cpu_usage, mem_usage,
                   desiredReplicas, k3s_query, written>>

\* line 81; the locals are computed anew by the next iteration
K3sSleep ==
    /\ k3s_pc = "sleep"
    /\ k3s_pc' = "read"
    /\ count_string' = 0
    /\ cpu_usage' = 0
    /\ mem_usage' = 0
    /\ desiredReplicas' = 0
    /\ k3s_query' = <<>>
    /\ written' = -1
    /\ UNCHANGED <<ml_vars, main_tf>>

NextK3s ==
    \/ K3sRead
    \/ K3sQuery
    \/ K3sDecide
    \/ K3sScale
    \/ K3sNotScaling
    \/ K3sSleep

SpecK3s == InitK3s /\ [][NextK3s]_vars

----------------------------------------------------------------------------
(* Properties *)

InIteration == pc \in {"train", "predict", "smf", "upf", "sleep"}
Decided == act.target # "none"
Other(d) == IF d = "oai-smf" THEN "oai-upf" ELSE "oai-smf"

\* C1: every replica count the decision step of the loop produces, and so
\* every count passed to scale_deployment, lies in [min_replicas,
\* max_replicas] = [2, 10], whatever count was read (also one outside the
\* limits) and whatever load was predicted.
C1_DesiredWithinLimits ==
    /\ pc = "returned" => ret[1] >= 2 /\ ret[1] <= 10
    /\ Decided => act.desired >= 2 /\ act.desired <= 10

\* a count read above the limit was patched down into the limits
C1_Witness ==
    act.ok /\ act.read > 10 /\ act.desired = 10

\* C2 as stated: with a cooldown of 45 s no deployment is patched less than
\* 45 s after its own last successful patch, nor less than 45 s after the
\* other deployment's patch of an earlier iteration.
C2_CooldownOf45s ==
    act.ok =>
        /\ act.age = -1 \/ act.age >= 45
        /\ since_scale[Other(act.target)] \in {-1, 0}
              \/ since_scale[Other(act.target)] >= 45

\* C2 amended: the loop has no cooldown gate.  A deployment is patched in
\* every iteration whose desired count differs from the count read; what
\* separates two successful patches, of the same deployment or of the two
\* in different iterations, is only the 30 s sleep between iterations.
C2_PatchesOneSleepApart ==
    /\ Decided => (act.patched <=> act.desired # act.read)
    /\ act.ok =>
          /\ act.age = -1 \/ act.age >= 30
          /\ since_scale[Other(act.target)] \in {-1, 0}
                \/ since_scale[Other(act.target)] >= 30

\* a deployment patched again 30 s after its last patch
C2_Witness ==
    act.ok /\ act.age = 30

\* C3 as stated (target_load = 60): for a predicted load in [48, 66] the
\* decision is the current count, for every current count.
C3_DeadBand48To66 ==
    (pc = "returned" /\ arg[2] >= 48 /\ arg[2] <= 66) => ret[1] = arg[1]

\* C3 amended: the band of no change is [30, 60]: for a predicted load in
\* [30, 60] and a current count within [min_replicas, max_replicas] the
\* decision is the current count, so the loop requests no patch.
C3_DeadBand30To60 ==
    (pc = "returned" /\ arg[2] >= 30 /\ arg[2] <= 60 /\ arg[1] >= 2 /\ arg[1] <= 10)
        => ret[1] = arg[1]

\* the upper edge of the band: load 60 leaves 5 replicas at 5
C3_Witness ==
    pc = "returned" /\ arg = <<5, 60>> /\ ret = <<5>>

Limited(n) == IF n < 2 THEN 2 ELSE IF n > 10 THEN 10 ELSE n

\* C4 as stated (target_load = 60): when predicted / 60 > 1.1 the decision is
\* ceil(current * predicted / 60) clamped to [2, 10].
C4_ScaleUpByRatio ==
    (pc = "returned" /\ 10 * arg[2] > 11 * 60)
        => ret[1] = Limited((arg[1] * arg[2] + 59) \div 60)

\* C4 amended: the factor is a step of the predicted load, not its ratio to
\* a target, and the product is truncated: above 80 the decision is
\* floor(current * 1.5), in (60, 80] it is floor(current * 1.2), clamped to
\* [2, 10] (with predicted 90: current 2 gives 3 and current 8 gives 10).
C4_ScaleUpBySteps ==
    /\ (pc = "returned" /\ arg[2] > 80) => ret[1] = Limited((3 * arg[1]) \div 2)
    /\ (pc = "returned" /\ arg[2] > 60 /\ arg[2] <= 80)
          => ret[1] = Limited((6 * arg[1]) \div 5)

\* predicted 90 takes 3 replicas to 4 (ceil would give 5)
C4_Witness ==
    pc = "returned" /\ arg = <<3, 90>> /\ ret = <<4>>

\* C5 as stated (target_load = 60): when predicted / 60 < 0.8 the decision is
\* floor(current * predicted / 60) clamped to [2, 10].
C5_ScaleDownByRatio ==
    (pc = "returned" /\ 10 * arg[2] < 8 * 60)
        => ret[1] = Limited((arg[1] * arg[2]) \div 60)

\* C5 amended: whenever the predicted load is below 30 the decision is
\* floor(current * 0.8) clamped to [2, 10], for every current count.
C5_ScaleDownBelow30 ==
    (pc = "returned" /\ arg[2] < 30) => ret[1] = Limited((4 * arg[1]) \div 5)

\* predicted 20 takes 10 replicas to 8
C5_Witness ==
    pc = "returned" /\ arg = <<10, 20>> /\ ret = <<8>>

\* the last n of the first k appended entries, in the order of insertion
MostRecent(k, n) == [i \in 1..n |-> k - n + i]

\* C6: neither history is ever longer than its capacity (100), and each holds
\* exactly the most recent entries in the order they were appended: once more
\* than 100 have been appended, the ones missing are the oldest.
C6_HistoryBound ==
    /\ Len(features_history) <= 100
    /\ Len(features_history) = Min(appended, 100)
    /\ features_history = MostRecent(appended, Min(appended, 100))
    /\ target_history = MostRecent(appended, Min(appended, 100))

\* the 102nd entry was appended and the first two are gone
C6_Witness ==
    appended = 102 /\ pc = "train" /\ Head(features_history) = 3

\* C7 as stated: while the model is untrained the iteration neither decides
\* nor patches.
C7_UntrainedSkipsDeciding ==
    ~is_trained => ~Decided /\ ~act.patched

\* C7 amended: while the model is untrained predict_load is never absent: it
\* yields the last feature collected (the memory usage), and the loop decides
\* on it for both deployments and patches where the decision differs from the
\* count read, also before the first training.
C7_UntrainedDecidesOnFallback ==
    ~is_trained =>
        /\ pc \in {"smf", "upf", "sleep"} => predicted_load = current_features[4]
        /\ pc \in {"upf", "sleep"} =>
              /\ Decided
              /\ act.desired = calculate_desired_replicas(act.read, current_features[4])
              /\ act.patched <=> act.desired # act.read

\* a patch made in the first iteration, on a memory usage of 90
C7_Witness ==
    ~is_trained /\ appended = 1 /\ act.ok /\ predicted_load = 90

\* C8: the model starts untrained; before the 20th sample is appended
\* train_model is not called, nothing is fitted and is_trained is false;
\* is_trained is true exactly when a fit has succeeded, and that fit was
\* made on at least 20 samples.
C8_TrainingGating ==
    /\ appended < 20 => ~is_trained /\ model = 0 /\ last_train = 0
    /\ is_trained <=> model # 0
    /\ is_trained => model >= 20 /\ model <= appended

\* the fit made when the 20th sample was appended has succeeded
C8_Witness ==
    is_trained /\ appended = 20 /\ model = 20

\* C9: two calls of train_model are at least RETRAIN_PERIOD (10) appended
\* samples apart, also once the history is at its capacity.
C9_RetrainCadence ==
    train_gap = -1 \/ train_gap >= 10

\* C10: a query that fails leaves its signal at 0 in the features of the
\* iteration, the collection step still hands over to the rest of the
\* iteration, the sample is recorded in both histories, and the iteration
\* predicts a load and decides for both deployments.
C10_GracefulDegradation ==
    InIteration =>
        /\ \A i \in 1..4 : query[i] = Raised => current_features[i] = 0
        /\ \A i \in 1..4 : current_features[i] >= 0
        /\ features_history[Len(features_history)] = appended
        /\ target_history[Len(target_history)] = appended
        /\ pc \in {"smf", "upf", "sleep"} => predicted_load >= 0
        /\ pc = "sleep" => act.target = "oai-upf"

\* an iteration whose latency query failed has run to its end
C10_Witness ==
    /\ pc = "sleep"
    /\ query[1] = Raised /\ query[2] # Raised /\ query[3] # Raised /\ query[4] # Raised
    /\ current_features[1] = 0 /\ current_features[4] = 70
    /\ act.target = "oai-upf"

\* C11: the four signals are queried independently: every signal whose own
\* query returned is recorded with the value that query returned, whichever
\* other query failed.
C11_SignalIndependence ==
    InIteration =>
        \A i \in 1..4 : query[i] # Raised => current_features[i] = query[i]

\* C12: the count a decision is computed from is the deployment's own count
\* in the cluster at the time of the step, also when the read fails.
C12_AuthoritativeCount ==
    Decided => act.read = act.before

\* C13: a scale_deployment that fails is absorbed: the deployment keeps the
\* count it had, and when the one that failed was oai-smf's the loop still
\* reads oai-upf's count, decides for it and patches it if the decision is a
\* change, in the same iteration.
C13_ActuationIsolation ==
    /\ (act.patched /\ ~act.ok) =>
          /\ replicas[act.target] = act.before
          /\ pc = (IF act.target = "oai-smf" THEN "upf" ELSE "sleep")
    /\ act.prior_failed =>
          /\ act.target = "oai-upf"
          /\ act.desired = calculate_desired_replicas(act.read, predicted_load)
          /\ act.patched <=> act.desired # act.read
          /\ act.ok => replicas["oai-upf"] = act.desired

\* oai-upf was patched from 5 to 7 after the patch of oai-smf had failed
C13_Witness ==
    act.prior_failed /\ act.ok /\ act.before = 5 /\ replicas["oai-upf"] = 7

\* C15: when the count decided for a deployment equals the count just read
\* for it, scale_deployment is not called for it and its count in the
\* cluster stays what it was.
C15_NoOpDecision ==
    (Decided /\ act.desired = act.read) =>
        ~act.patched /\ ~act.ok /\ replicas[act.target] = act.before

\* a load of 50 left the 5 replicas read for oai-upf alone
C15_Witness ==
    /\ act.target = "oai-upf" /\ act.read = 5 /\ act.desired = 5 /\ ~act.patched
    /\ predicted_load = 50 /\ replicas["oai-upf"] = 5

\* train_model was called in this step and did not fit the model anew
TrainedInVain == pc = "train" /\ last_train' = appended /\ model' # appended

\* C16: a train_model call that fails, or is skipped for lack of data, leaves
\* is_trained and the fitted model exactly as they were, and a trained
\* predictor stays trained whatever happens.
C16_FailedTrainingPreserves ==
    [][/\ TrainedInVain => is_trained' = is_trained /\ model' = model
       /\ is_trained => is_trained' /\ model' # 0]_vars

\* the fit at the 40th sample failed and the model fitted at the 20th is kept
C16_Witness ==
    pc = "predict" /\ appended = 40 /\ last_train = 40 /\ is_trained /\ model = 20

\* C14: whatever fails in an iteration (a query, the fit, the prediction, a
\* read or a patch of a deployment), the loop does not end: it goes through
\* the rest of the iteration and comes back to its collection step, and the
\* only positions it is ever at are those of the iteration.
C14_NoErrorIsFatal ==
    /\ [](pc \in {"collect", "train", "predict", "smf", "upf", "sleep"})
    /\ [](InIteration => <>(pc = "collect"))

\* the end of an iteration in which a query, the prediction and a patch failed
C14_Witness ==
    /\ pc = "sleep" /\ is_trained
    /\ query[1] = Raised /\ query[4] = Raised
    /\ predicted_load = 0
    /\ act.patched /\ ~act.ok

\* C17: in every example the model is fitted on, the score is that of a
\* sample taken later than the sample the features are of, never the score
\* of that sample itself.
C17_ForecastHorizon ==
    (pc = "predict" /\ last_train = appended /\ model = appended) =>
        \A example \in TrainingSet(features_history, target_history) :
            example[2] > example[1]

\* C18: with cpu and memory in [0,100] and latency and throughput not
\* negative, the load score lies in [0,100] (0 to 1000 tenths).
C18_CompositeScoreBound ==
    (/\ InIteration
     /\ \A i \in 1..4 : current_features[i] >= 0
     /\ current_features[3] <= 100 /\ current_features[4] <= 100)
    => (load_score >= 0 /\ load_score <= 1000)

\* C19: what predict_load returns while the model is untrained, the load the
\* decisions of the iteration are made on, is the load score computed for the
\* sample of the iteration.
C19_UntrainedPredictsLoadScore ==
    (pc \in {"smf", "upf", "sleep"} /\ ~is_trained) =>
        10 * predicted_load = load_score

\* C20: with reads and patches succeeding and the load above 60, every
\* decision taken for a count in [min_replicas, max_replicas) raises it; a
\* count that a load above 60 leaves where it is stays there for as long as
\* that load lasts and never reaches max_replicas.
C20_ScaleUpProgress ==
    (/\ Decided /\ predicted_load > 60
     /\ act.read = act.before /\ (act.patched => act.ok)
     /\ act.before >= min_replicas /\ act.before < max_replicas)
    => (act.desired > act.before /\ replicas[act.target] = act.desired)

\* C21: features_history and target_history always have the same length, and
\* entry k of one was appended by the same add_data_point call as entry k of
\* the other, also once the oldest entries are being dropped.
C21_HistoriesPaired ==
    /\ Len(features_history) = Len(target_history)
    /\ \A k \in 1..Len(features_history) : features_history[k] = target_history[k]

\* three pairs have been dropped: both histories start at the 4th call
C21_Witness ==
    /\ appended = 103 /\ pc = "train"
    /\ Len(features_history) = 100 /\ Len(target_history) = 100
    /\ features_history[1] = 4 /\ target_history[1] = 4
    /\ features_history[100] = 103 /\ target_history[100] = 103

\* C22: the count k3s-autoscaling.py writes to main.tf in an iteration is at
\* least 2 and is not the count it read at the start of the iteration,
\* whatever the two queries returned, also when both returned no data.
C22_NodeCountWritten ==
    written # -1 =>
        /\ written >= 2
        /\ written # count_string
        /\ main_tf = written
        /\ written = desiredReplicas

\* both queries returned no data and the 5 nodes read were brought to 2
C22_Witness ==
    /\ k3s_pc = "sleep"
    /\ k3s_query = <<NoData, NoData>>
    /\ count_string = 5
    /\ written = 2 /\ main_tf = 2

====
